---------------------------- MODULE Spec2Model ----------------------------
(***************************************************************************)
(* Model of the snap Cassandra publisher plugin (plugin version 7):        *)
(* the Publish entry point, the process-wide session singleton guarded by  *)
(* sync.Once, schema provisioning, the per-metric write path, the value    *)
(* normalizer convert and the tag index selector getValidTagIndex.         *)
(*                                                                         *)
(* Go strings that the code takes apart (the tagIndex option, tag keys)    *)
(* are sequences of one-character strings.  A number is a sign and the set *)
(* of the exponents of the powers of two that sum to its magnitude, so     *)
(* that 64-bit integers and their float64 images are exact values.         *)
(***************************************************************************)
EXTENDS Integers, Sequences, FiniteSets, TLC

VARIABLES
    once,       \* sync.Once guarding the singleton: "new", "running", "done"
    instance,   \* package variable instance: NoSession or a session handle
    opened,     \* sessions created by CreateSession, in order: [co, closed]
    ddl,        \* schema statements executed so far, in order
    alive,      \* FALSE once log.Fatal (or a panic) has ended the process
    client,     \* CassandraPublisher.client of each publisher
    pc,         \* position of each host goroutine inside Publish
    call,       \* locals of the Publish call each goroutine runs (or ran last)
    result,     \* what the last Publish of each goroutine returned
    ncalls,     \* number of Publish calls started so far
    logLevel,   \* the logrus level set by getLogger
    host,       \* the host: how many goroutines it lets into Publish at once,
                \* the metrics it has in flight, the publishers it calls
    arg,        \* input of the pure function under check
    ret         \* output of the pure function under check

vars == <<once, instance, opened, ddl, alive, client, pc, call, result,
          ncalls, logLevel, host, arg, ret>>

-----------------------------------------------------------------------------
(* Bounds *)

\* host goroutines that a host without a concurrency limit runs Publish on
NumCallers == 2
\* Publish calls started in one behaviour
MaxCalls == 2
\* metrics in a batch
MaxBatch == 2
\* metrics in the batches that concurrent calls hold at one time
MaxConcurrentBatch == 1
\* characters in a tagIndex option drawn for getValidTagIndex
MaxSpecLen == 4
\* writes that an open session refuses during one call
MaxFailures == 1

Callers == 1..NumCallers
Publishers == {"pubA", "pubB"}

Null == "null"
NoSession == 0
NoClient == [session |-> NoSession, keyspace |-> Null, tableName |-> Null, tagsIndex |-> Null]

-----------------------------------------------------------------------------
(* Strings as character sequences *)

RECURSIVE SplitAcc(_, _, _, _)
SplitAcc(s, i, cur, acc) ==
    IF i > Len(s) THEN Append(acc, cur)
    ELSE IF s[i] = "," THEN SplitAcc(s, i + 1, <<>>, Append(acc, cur))
    ELSE SplitAcc(s, i + 1, Append(cur, s[i]), acc)

\* strings.Split(s, ","): the pieces between the commas; one empty piece for ""
Split(s) == SplitAcc(s, 1, <<>>, <<>>)

IsSpace(c) == c \in {" ", "\t"}

RECURSIVE TrimLeft(_)
TrimLeft(s) == IF s # <<>> /\ IsSpace(Head(s)) THEN TrimLeft(Tail(s)) ELSE s

RECURSIVE TrimRight(_)
TrimRight(s) ==
    IF s # <<>> /\ IsSpace(s[Len(s)]) THEN TrimRight(SubSeq(s, 1, Len(s) - 1)) ELSE s

\* strings.TrimSpace
TrimSpace(s) == TrimRight(TrimLeft(s))

Separator == [text |-> ";"]

RECURSIVE JoinFrom(_, _)
JoinFrom(msgs, i) ==
    IF i > Len(msgs) THEN <<>>
    ELSE IF i = Len(msgs) THEN <<msgs[i]>>
    ELSE <<msgs[i], Separator>> \o JoinFrom(msgs, i + 1)

\* strings.Join(errs, ";"): the messages with a ";" between neighbours
Join(msgs) == JoinFrom(msgs, 1)

-----------------------------------------------------------------------------
(* Numbers *)

\* a float64 mantissa holds 52 stored bits and the implicit leading one
MantissaBits == 52 + 1

MaxOf(S) == CHOOSE x \in S : \A y \in S : y <= x
MinOf(S) == CHOOSE x \in S : \A y \in S : x <= y

\* number of significant bits of a magnitude given as its set of exponents
SigBits(bits) == IF bits = {} THEN 0 ELSE MaxOf(bits) - MinOf(bits) + 1

RECURSIVE AddBit(_, _)
\* the magnitude plus 2^b, carrying upwards
AddBit(bits, b) == IF b \in bits THEN AddBit(bits \ {b}, b + 1) ELSE bits \cup {b}

\* the magnitude with every bit below position cut cleared
Floor(bits, cut) == {b \in bits : b >= cut}

\* position of the lowest bit a float64 keeps of this magnitude
CutOf(bits) == MaxOf(bits) - (MantissaBits - 1)

\* a conversion that drops the bits a float64 cannot keep instead of rounding
ToFloat64Truncating(bits) == Floor(bits, IF bits = {} THEN 0 ELSE CutOf(bits))

\* float64(v) of an integer: exact up to 53 significant bits, else rounded to
\* the nearest representable value, ties to the even mantissa
ToFloat64(bits) ==
    IF SigBits(bits) <= MantissaBits THEN bits
    ELSE LET cut    == CutOf(bits)
             kept   == Floor(bits, cut)
             guard  == (cut - 1) \in bits
             sticky == \E b \in bits : b < cut - 1
             lsb    == cut \in bits
         IN  IF guard /\ (sticky \/ lsb) THEN AddBit(kept, cut) ELSE kept

-----------------------------------------------------------------------------
(* Metric values and the value normalizer *)

IntTypes == {"int16", "int32", "int64", "int8", "uint64", "uint32", "uint16",
             "uint8", "uint", "int"}
FloatTypes == {"float64", "float32"}
OtherTypes == {"map", "slice", "struct", "nil"}

NilValue == [type |-> "nil"]
NoErr == [text |-> "nil"]

ErrInvalidDataType(v) == [text |-> "Invalid data type value found - %v", of |-> v]

\* a convert that also lets a composite value through, as text
convertAcceptingAll(i) ==
    IF i.type \in IntTypes \cup FloatTypes
    THEN [num |-> [type |-> "float64", neg |-> i.neg, bits |-> ToFloat64(i.bits)], err |-> NoErr]
    ELSE IF i.type = "bool" THEN [num |-> i, err |-> NoErr]
    ELSE [num |-> [type |-> "string", s |-> i.type], err |-> NoErr]

\* a convert whose string case was lost, so that text falls to the default
convertNoString(i) ==
    IF i.type \in IntTypes \cup FloatTypes
    THEN [num |-> [type |-> "float64", neg |-> i.neg, bits |-> ToFloat64(i.bits)], err |-> NoErr]
    ELSE IF i.type = "bool" THEN [num |-> i, err |-> NoErr]
    ELSE [num |-> NilValue, err |-> ErrInvalidDataType(i)]

\* convert: (num, err) of the type switch over the dynamic type of i
convert(i) ==
    CASE i.type = "float64" -> [num |-> i, err |-> NoErr]
      [] i.type = "float32" ->
            [num |-> [type |-> "float64", neg |-> i.neg, bits |-> i.bits], err |-> NoErr]
      [] i.type \in IntTypes ->
            [num |-> [type |-> "float64", neg |-> i.neg, bits |-> ToFloat64(i.bits)],
             err |-> NoErr]
      [] i.type = "bool" -> [num |-> i, err |-> NoErr]
      [] i.type = "string" -> [num |-> i, err |-> NoErr]
      [] OTHER -> [num |-> NilValue, err |-> ErrInvalidDataType(i)]

-----------------------------------------------------------------------------
(* The tag index selector *)

\* a selector that looks the configured key up without trimming it
getValidTagIndexNoTrim(mtag, tagIndex) ==
    LET indexTags == Split(tagIndex)
    IN  SelectSeq(indexTags, LAMBDA t : t \in DOMAIN mtag)

RECURSIVE TagLoop(_, _, _, _)
\* the range loop of getValidTagIndex from piece k on, itags collected so far
TagLoop(mtag, indexTags, k, itags) ==
    IF k > Len(indexTags) THEN itags
    ELSE LET tt == TrimSpace(indexTags[k])
         IN  TagLoop(mtag, indexTags, k + 1,
                     IF tt \in DOMAIN mtag THEN Append(itags, tt) ELSE itags)

getValidTagIndex(mtag, tagIndex) == TagLoop(mtag, Split(tagIndex), 1, <<>>)

-----------------------------------------------------------------------------
(* Configuration *)

SnapGOBContentType == "snap.gob"

\* core.STD_TAG_PLUGIN_RUNNING_ON
STD_TAG_PLUGIN_RUNNING_ON ==
    <<"p", "l", "u", "g", "i", "n", "_", "r", "u", "n", "n", "i", "n", "g", "_", "o", "n">>

ConfigValueStr(v) == [type |-> "string", value |-> v]
ConfigValueInt(v) == [type |-> "integer", value |-> v]
ConfigValueBool(v) == [type |-> "bool", value |-> v]

\* the keys prepareClientOptions and Publish read on every first call
BaseKeys == {"server", "port", "timeout", "connectionTimeout", "initialHostLookup",
             "ignorePeerAddr", "keyspaceName", "createKeyspace", "ssl", "tableName",
             "tagIndex"}

\* the keys getSslOptions reads
SslKeys == {"username", "password", "keyPath", "certPath", "caPath",
            "serverCertVerification"}

\* getValueForKey: the value of the key; nil when its Type() is none of the
\* three.  For a key the map does not have the call does not return (it calls
\* Type() on a nil interface, see KeysRead); nil stands in for its value
getValueForKey(cfg, key) ==
    IF key \in DOMAIN cfg /\ cfg[key].type \in {"bool", "string", "integer"}
    THEN cfg[key] ELSE NilValue

\* value, ok := x.(string) and its siblings: the zero value when the assertion fails
AssertString(x) == IF x.type = "string" THEN x.value ELSE ""
AssertInt(x) == IF x.type = "integer" THEN x.value ELSE 0
AssertBool(x) == IF x.type = "bool" THEN x.value ELSE FALSE

NoSsl == [present |-> FALSE]

getSslOptions(cfg) ==
    [present |-> TRUE,
     username |-> AssertString(getValueForKey(cfg, "username")),
     password |-> AssertString(getValueForKey(cfg, "password")),
     keyPath |-> AssertString(getValueForKey(cfg, "keyPath")),
     certPath |-> AssertString(getValueForKey(cfg, "certPath")),
     caPath |-> AssertString(getValueForKey(cfg, "caPath")),
     enableServerCertVerification |->
         AssertBool(getValueForKey(cfg, "serverCertVerification"))]

\* a prepareClientOptions that extracts the ssl options whatever the flag says
prepareClientOptionsAlwaysSsl(config) ==
    [server |-> AssertString(getValueForKey(config, "server")),
     port |-> AssertInt(getValueForKey(config, "port")),
     timeout |-> AssertInt(getValueForKey(config, "timeout")),
     connectionTimeout |-> AssertInt(getValueForKey(config, "connectionTimeout")),
     initialHostLookup |-> AssertBool(getValueForKey(config, "initialHostLookup")),
     ignorePeerAddr |-> AssertBool(getValueForKey(config, "ignorePeerAddr")),
     keyspace |-> AssertString(getValueForKey(config, "keyspaceName")),
     createKeyspace |-> AssertBool(getValueForKey(config, "createKeyspace")),
     ssl |-> getSslOptions(config),
     tableName |-> AssertString(getValueForKey(config, "tableName"))]

prepareClientOptions(config) ==
    [server |-> AssertString(getValueForKey(config, "server")),
     port |-> AssertInt(getValueForKey(config, "port")),
     timeout |-> AssertInt(getValueForKey(config, "timeout")),
     connectionTimeout |-> AssertInt(getValueForKey(config, "connectionTimeout")),
     initialHostLookup |-> AssertBool(getValueForKey(config, "initialHostLookup")),
     ignorePeerAddr |-> AssertBool(getValueForKey(config, "ignorePeerAddr")),
     keyspace |-> AssertString(getValueForKey(config, "keyspaceName")),
     createKeyspace |-> AssertBool(getValueForKey(config, "createKeyspace")),
     ssl |-> IF AssertBool(getValueForKey(config, "ssl"))
             THEN getSslOptions(config) ELSE NoSsl,
     tableName |-> AssertString(getValueForKey(config, "tableName"))]

\* the keys a first Publish call looks up; a key that is missing makes
\* getValueForKey call Type() on a nil interface, which panics
KeysRead(config) ==
    BaseKeys \cup
    (IF "ssl" \in DOMAIN config /\ AssertBool(getValueForKey(config, "ssl"))
     THEN SslKeys ELSE {})

NoOptions == [server |-> Null]

\* getLogger: the level it leaves logrus at
getLogger(config) ==
    IF "debug" \in DOMAIN config /\ config["debug"].type = "bool" /\ config["debug"].value
    THEN "debug"
    ELSE "warn"

\* a configuration as the host hands it over after applying the config policy
MkConfig(ks, tbl, tagIndex, createKs, debug) ==
    [k \in BaseKeys \cup {"debug"} |->
        CASE k = "server" -> ConfigValueStr("127.0.0.1")
          [] k = "port" -> ConfigValueInt(9042)
          [] k = "timeout" -> ConfigValueInt(2)
          [] k = "connectionTimeout" -> ConfigValueInt(2)
          [] k = "initialHostLookup" -> ConfigValueBool(TRUE)
          [] k = "ignorePeerAddr" -> ConfigValueBool(FALSE)
          [] k = "keyspaceName" -> ConfigValueStr(ks)
          [] k = "createKeyspace" -> ConfigValueBool(createKs)
          [] k = "ssl" -> ConfigValueBool(FALSE)
          [] k = "tableName" -> ConfigValueStr(tbl)
          [] k = "tagIndex" -> ConfigValueStr(tagIndex)
          [] k = "debug" -> ConfigValueBool(debug)]

Configs ==
    { MkConfig("snap", "metrics", <<"a", ",", " ", "b">>, TRUE, FALSE),
      MkConfig("other", "tags", <<>>, FALSE, FALSE) }

-----------------------------------------------------------------------------
(* Metrics *)

IntValue(bits) == [type |-> "int", neg |-> FALSE, bits |-> bits]

Tags(keys) ==
    [k \in keys \cup {STD_TAG_PLUGIN_RUNNING_ON} |->
        IF k = STD_TAG_PLUGIN_RUNNING_ON THEN "hostname" ELSE "101"]

Metric(ns, keys, data) ==
    [namespace |-> ns, version |-> 1, timestamp |-> "t0", tags |-> Tags(keys), data |-> data]

\* the metrics batches are drawn from: a number with one indexed tag, a text
\* with no tag to index, a boolean with two indexed tags, and a map (an
\* unsupported value) with one indexed tag
MetricUniverse ==
    { Metric("intel/psutil/load/load1", {<<"a">>}, IntValue({0, 1, 2, 5, 6})),
      Metric("string", {}, [type |-> "string", s |-> "bar"]),
      Metric("baz", {<<"a">>, <<"b">>}, [type |-> "bool", b |-> TRUE]),
      Metric("invalid/data/type", {<<"b">>}, [type |-> "map"]) }

RECURSIVE SeqsUpTo(_, _)
SeqsUpTo(S, n) ==
    IF n = 0 THEN {<<>>}
    ELSE LET shorter == SeqsUpTo(S, n - 1)
         IN  shorter \cup {Append(q, x) : q \in {r \in shorter : Len(r) = n - 1}, x \in S}

\* the one metric the goroutines of a host without a concurrency limit send
ConcurrentUniverse ==
    { Metric("intel/psutil/load/load1", {<<"a">>}, IntValue({0, 1, 2, 5, 6})) }

-----------------------------------------------------------------------------
(* The store driver *)

ErrStore == [text |-> "gocql: query failed"]

\* gocql.NewCluster: no authenticator
NoAuthenticator == [username |-> "", password |-> ""]

\* an addSslOptions that sets the certificate paths only when all three are given
addSslOptionsAllPathsOrNone(cluster, options) ==
    LET all == options.certPath # "" /\ options.caPath # "" /\ options.keyPath # ""
    IN  [cluster EXCEPT
            !.authenticator =
                IF options.username # "" /\ options.password # ""
                THEN [username |-> options.username, password |-> options.password]
                ELSE cluster.authenticator,
            !.sslOpts =
                [present |-> TRUE,
                 enableHostVerification |-> options.enableServerCertVerification,
                 certPath |-> IF all THEN options.certPath ELSE "",
                 caPath |-> IF all THEN options.caPath ELSE "",
                 keyPath |-> IF all THEN options.keyPath ELSE ""]]

\* createCluster and addSslOptions: the cluster descriptor of a session
addSslOptions(cluster, options) ==
    [cluster EXCEPT
        !.authenticator =
            IF options.username # "" /\ options.password # ""
            THEN [username |-> options.username, password |-> options.password]
            ELSE cluster.authenticator,
        !.sslOpts =
            [present |-> TRUE,
             enableHostVerification |-> options.enableServerCertVerification,
             certPath |-> options.certPath,
             caPath |-> options.caPath,
             keyPath |-> options.keyPath]]

createCluster(config) ==
    LET cluster == [server |-> config.server,
                    consistency |-> "one",
                    protoVersion |-> 4,
                    timeout |-> config.timeout,
                    connectTimeout |-> config.connectionTimeout,
                    disableInitialHostLookup |-> ~config.initialHostLookup,
                    ignorePeerAddr |-> config.ignorePeerAddr,
                    authenticator |-> [username |-> "", password |-> ""],
                    sslOpts |-> [present |-> FALSE]]
    IN  IF config.ssl.present THEN addSslOptions(cluster, config.ssl) ELSE cluster

\* an executeMetricsQuery that binds the time of the write, as
\* executeTagsQuery does, where the metric's timestamp belongs
executeMetricsQueryTimeNow(keyspace, tableName, insertColumn, s, m, value, ok) ==
    [session |-> s, keyspace |-> keyspace, table |-> tableName,
     row |-> [c \in {"ns", "ver", "host", "time", "valtype", insertColumn, "tags"} |->
                CASE c = "ns" -> [v |-> m.namespace]
                  [] c = "ver" -> [v |-> m.version]
                  [] c = "host" ->
                        [v |-> IF STD_TAG_PLUGIN_RUNNING_ON \in DOMAIN m.tags
                               THEN m.tags[STD_TAG_PLUGIN_RUNNING_ON] ELSE ""]
                  [] c = "time" -> [v |-> "now"]
                  [] c = "valtype" -> [v |-> insertColumn]
                  [] c = "tags" -> [v |-> m.tags]
                  [] OTHER -> [v |-> value]],
     err |-> IF ok THEN NoErr ELSE ErrStore]

\* the columns an INSERT names, with the values bound to them
executeMetricsQuery(keyspace, tableName, insertColumn, s, m, value, ok) ==
    [session |-> s, keyspace |-> keyspace, table |-> tableName,
     row |-> [c \in {"ns", "ver", "host", "time", "valtype", insertColumn, "tags"} |->
                CASE c = "ns" -> [v |-> m.namespace]
                  [] c = "ver" -> [v |-> m.version]
                  [] c = "host" ->
                        [v |-> IF STD_TAG_PLUGIN_RUNNING_ON \in DOMAIN m.tags
                               THEN m.tags[STD_TAG_PLUGIN_RUNNING_ON] ELSE ""]
                  [] c = "time" -> [v |-> m.timestamp]
                  [] c = "valtype" -> [v |-> insertColumn]
                  [] c = "tags" -> [v |-> m.tags]
                  [] OTHER -> [v |-> value]],
     err |-> IF ok THEN NoErr ELSE ErrStore]

executeTagsQuery(keyspace, insertColumn, tag, s, m, value, ok) ==
    [session |-> s, keyspace |-> keyspace, table |-> "tags",
     row |-> [c \in {"key", "val", "time", "ns", "ver", "host", "valtype",
                     insertColumn, "tags"} |->
                CASE c = "key" -> [v |-> tag]
                  [] c = "val" -> [v |-> IF tag \in DOMAIN m.tags THEN m.tags[tag] ELSE ""]
                  [] c = "time" -> [v |-> "now"]
                  [] c = "ns" -> [v |-> m.namespace]
                  [] c = "ver" -> [v |-> m.version]
                  [] c = "host" ->
                        [v |-> IF STD_TAG_PLUGIN_RUNNING_ON \in DOMAIN m.tags
                               THEN m.tags[STD_TAG_PLUGIN_RUNNING_ON] ELSE ""]
                  [] c = "valtype" -> [v |-> insertColumn]
                  [] c = "tags" -> [v |-> m.tags]
                  [] OTHER -> [v |-> value]],
     err |-> IF ok THEN NoErr ELSE ErrStore]

\* a worker whose string case names the column of the float64 case
workerOneColumn(s, keyspace, tableName, m, ok) ==
    LET c == convert(m.data)
    IN  IF c.err # NoErr THEN [err |-> c.err, writes |-> <<>>]
        ELSE IF c.num.type \in {"float64", "string"}
        THEN [err |-> NoErr,
              writes |-> <<executeMetricsQuery(keyspace, tableName, "doubleVal",
                                               s, m, c.num, ok)>>]
        ELSE [err |-> NoErr,
              writes |-> <<executeMetricsQuery(keyspace, tableName, "boolVal",
                                               s, m, c.num, ok)>>]

\* worker: (err, the writes it issued).  The error of a failed insert is
\* logged and dropped: the inner err := shadows the one that is returned
worker(s, keyspace, tableName, m, ok) ==
    LET c == convert(m.data)
    IN  IF c.err # NoErr THEN [err |-> c.err, writes |-> <<>>]
        ELSE CASE c.num.type = "float64" ->
                    [err |-> NoErr,
                     writes |-> <<executeMetricsQuery(keyspace, tableName, "doubleVal",
                                                      s, m, c.num, ok)>>]
               [] c.num.type = "string" ->
                    [err |-> NoErr,
                     writes |-> <<executeMetricsQuery(keyspace, tableName, "strVal",
                                                      s, m, c.num, ok)>>]
               [] c.num.type = "bool" ->
                    [err |-> NoErr,
                     writes |-> <<executeMetricsQuery(keyspace, tableName, "boolVal",
                                                      s, m, c.num, ok)>>]
               [] OTHER -> [err |-> ErrInvalidDataType(c.num), writes |-> <<>>]

\* a tagWorker that returns after the write for the first tag
tagWorkerFirstOnly(s, keyspace, m, tags, oks) ==
    IF Len(tags) = 0 THEN [err |-> NoErr, writes |-> <<>>]
    ELSE LET c == convert(m.data)
         IN  IF c.err # NoErr THEN [err |-> c.err, writes |-> <<>>]
             ELSE [err |-> NoErr,
                   writes |-> <<executeTagsQuery(
                                  keyspace,
                                  IF c.num.type = "float64" THEN "doubleVal"
                                  ELSE IF c.num.type = "string" THEN "strVal" ELSE "boolVal",
                                  tags[1], s, m, c.num, oks[1])>>]

\* a tagWorker that ranges over the tags from the last to the first
tagWorkerReversed(s, keyspace, m, tags, oks) ==
    IF Len(tags) = 0 THEN [err |-> NoErr, writes |-> <<>>]
    ELSE LET c == convert(m.data)
         IN  IF c.err # NoErr THEN [err |-> c.err, writes |-> <<>>]
             ELSE [err |-> NoErr,
                   writes |-> [k \in 1..Len(tags) |->
                       executeTagsQuery(
                           keyspace,
                           IF c.num.type = "float64" THEN "doubleVal"
                           ELSE IF c.num.type = "string" THEN "strVal" ELSE "boolVal",
                           tags[Len(tags) + 1 - k], s, m, c.num, oks[k])]]

\* a tagWorker that converts the value before it looks at the tags
tagWorkerConvertFirst(s, keyspace, m, tags, oks) ==
    LET c == convert(m.data)
    IN  IF c.err # NoErr THEN [err |-> c.err, writes |-> <<>>]
        ELSE [err |-> NoErr,
              writes |-> [k \in 1..Len(tags) |->
                  executeTagsQuery(
                      keyspace,
                      IF c.num.type = "float64" THEN "doubleVal"
                      ELSE IF c.num.type = "string" THEN "strVal" ELSE "boolVal",
                      tags[k], s, m, c.num, oks[k])]]

\* tagWorker: (err, the writes it issued), one write per tag, in order;
\* oks[k] is the store's answer to the k-th of them
tagWorker(s, keyspace, m, tags, oks) ==
    IF Len(tags) = 0 THEN [err |-> NoErr, writes |-> <<>>]
    ELSE LET c == convert(m.data)
         IN  IF c.err # NoErr THEN [err |-> c.err, writes |-> <<>>]
             ELSE CASE c.num.type = "float64" ->
                         [err |-> NoErr,
                          writes |-> [k \in 1..Len(tags) |->
                              executeTagsQuery(keyspace, "doubleVal", tags[k], s, m,
                                               c.num, oks[k])]]
                    [] c.num.type = "string" ->
                         [err |-> NoErr,
                          writes |-> [k \in 1..Len(tags) |->
                              executeTagsQuery(keyspace, "strVal", tags[k], s, m,
                                               c.num, oks[k])]]
                    [] c.num.type = "bool" ->
                         [err |-> NoErr,
                          writes |-> [k \in 1..Len(tags) |->
                              executeTagsQuery(keyspace, "boolVal", tags[k], s, m,
                                               c.num, oks[k])]]
                    [] OTHER -> [err |-> ErrInvalidDataType(c.num), writes |-> <<>>]

\* fmt.Errorf(strings.Join(errs, ";")): the joined messages as the error text
JoinedError(errs) == [err |-> TRUE, text |-> Join(errs)]

NilError == [err |-> FALSE, text |-> <<>>]

-----------------------------------------------------------------------------
(* The publisher: one action per step of Publish, getInstance,             *)
(* initializeSession, saveMetrics and Close                                *)

ContentTypes == {SnapGOBContentType, "snap.json"}

NoCall ==
    [pub |-> Null, contentType |-> Null, decodable |-> FALSE, config |-> <<>>,
     metrics |-> <<>>, co |-> NoOptions, tagIndex |-> <<>>, session |-> NoSession,
     cc |-> NoClient, i |-> 0, err |-> NoErr, errs |-> <<>>, issued |-> <<>>,
     returned |-> FALSE]

ErrDecode == [err |-> TRUE, text |-> <<[text |-> "decoding error"]>>]
ErrContentType(ct) == [err |-> TRUE, text |-> <<[text |-> "Unknown content type", of |-> ct]>>]

MainInit ==
    /\ once = "new"
    /\ instance = NoSession
    /\ opened = <<>>
    /\ ddl = <<>>
    /\ alive = TRUE
    /\ client = [p \in Publishers |-> NoClient]
    /\ pc = [t \in Callers |-> "idle"]
    /\ call = [t \in Callers |-> NoCall]
    /\ result = [t \in Callers |-> NilError]
    /\ ncalls = 0
    /\ logLevel = "info"

\* Meta(): plugin.ConcurrencyCount(1), the calls the host runs at one time
ConcurrencyCount == 1

Init ==
    /\ MainInit
    /\ host = [concurrency |-> ConcurrencyCount, batch |-> MaxBatch,
               publishers |-> Publishers, metrics |-> MetricUniverse,
               contentTypes |-> ContentTypes]
    /\ arg = Null /\ ret = Null

InFlight == {u \in Callers : pc[u] # "idle"}

RECURSIVE SumLen(_)
SumLen(S) ==
    IF S = {} THEN 0
    ELSE LET u == CHOOSE x \in S : TRUE IN Len(call[u].metrics) + SumLen(S \ {u})

\* the host starts a call on its first free goroutine, while it has one
\* and the concurrency limit allows
MayStart(t) ==
    /\ alive /\ pc[t] = "idle" /\ ncalls < MaxCalls
    /\ Cardinality(InFlight) < host.concurrency
    /\ \A u \in Callers : u < t => pc[u] # "idle"

\* the locals of Publish after "if cas.client == nil": on a nil client the
\* options are resolved and NewCassaClient is entered, else saveMetrics is
Resolved(c) ==
    [c EXCEPT !.co = prepareClientOptions(c.config),
              !.tagIndex = AssertString(getValueForKey(c.config, "tagIndex"))]

\* a Publish that looks at the client before it looks at the batch
PublishClientFirst(t) ==
    /\ MayStart(t)
    /\ \E p \in host.publishers, ct \in host.contentTypes, dec \in BOOLEAN, cfg \in Configs :
          /\ logLevel' = getLogger(cfg)
          /\ ncalls' = ncalls + 1
          /\ LET c == [NoCall EXCEPT !.pub = p, !.contentType = ct, !.decodable = dec,
                                     !.config = cfg]
             IN  /\ call' = [call EXCEPT ![t] = IF client[p] = NoClient THEN Resolved(c) ELSE c]
                 /\ pc' = [pc EXCEPT ![t] = IF client[p] = NoClient THEN "getInstance"
                                            ELSE "save"]
                 /\ result' = [result EXCEPT ![t] = NilError]
    /\ UNCHANGED <<once, instance, opened, ddl, alive, client, host, arg, ret>>

\* Publish, from its entry to the call of NewCassaClient or saveMetrics:
\* getLogger, then the decode, where an unknown content type or a payload
\* that does not decode returns at once, then "if cas.client == nil" and,
\* on a nil client, the options.  A key that is missing panics.
Publish(t) ==
    /\ MayStart(t)
    /\ \E p \in host.publishers, ct \in host.contentTypes, dec \in BOOLEAN, cfg \in Configs,
          mts \in SeqsUpTo(host.metrics, host.batch) :
          /\ (ct # SnapGOBContentType \/ ~dec) => mts = <<>>
          /\ Len(mts) + SumLen(InFlight) <= host.batch
          /\ logLevel' = getLogger(cfg)
          /\ ncalls' = ncalls + 1
          /\ LET c == [NoCall EXCEPT !.pub = p, !.contentType = ct, !.decodable = dec,
                                     !.config = cfg, !.metrics = mts]
             IN  IF ct # SnapGOBContentType
                 THEN /\ call' = [call EXCEPT ![t] = [c EXCEPT !.returned = TRUE]]
                      /\ result' = [result EXCEPT ![t] = ErrContentType(ct)]
                      /\ pc' = [pc EXCEPT ![t] = "returned"]
                      /\ UNCHANGED alive
                 ELSE IF ~dec
                 THEN /\ call' = [call EXCEPT ![t] = [c EXCEPT !.returned = TRUE]]
                      /\ result' = [result EXCEPT ![t] = ErrDecode]
                      /\ pc' = [pc EXCEPT ![t] = "returned"]
                      /\ UNCHANGED alive
                 ELSE IF client[p] # NoClient
                 THEN /\ call' = [call EXCEPT ![t] = c]
                      /\ result' = [result EXCEPT ![t] = NilError]
                      /\ pc' = [pc EXCEPT ![t] = "save"]
                      /\ UNCHANGED alive
                 ELSE IF KeysRead(cfg) \subseteq DOMAIN cfg
                 THEN /\ call' = [call EXCEPT ![t] = Resolved(c)]
                      /\ result' = [result EXCEPT ![t] = NilError]
                      /\ pc' = [pc EXCEPT ![t] = "getInstance"]
                      /\ UNCHANGED alive
                 ELSE /\ alive' = FALSE
                      /\ UNCHANGED <<call, result, pc>>
    /\ UNCHANGED <<once, instance, opened, ddl, client, host, arg, ret>>

\* a getInstance that tests the package variable instead of using sync.Once
getInstanceCheckThenAct(t) ==
    /\ alive /\ pc[t] = "getInstance"
    /\ IF instance = NoSession
       THEN /\ pc' = [pc EXCEPT ![t] = "createSession"]
            /\ UNCHANGED call
       ELSE /\ pc' = [pc EXCEPT ![t] = "setClient"]
            /\ call' = [call EXCEPT ![t].session = instance]
    /\ UNCHANGED <<once, instance, opened, ddl, alive, client, result, ncalls, logLevel,
                   host, arg, ret>>

\* a getInstance that opens a new session when the options differ from the
\* ones the current session was opened with
getInstancePerOptions(t) ==
    /\ alive /\ pc[t] = "getInstance"
    /\ once # "running"
    /\ IF once = "new" \/ opened[instance].co # call[t].co
       THEN /\ once' = "running"
            /\ pc' = [pc EXCEPT ![t] = "createSession"]
            /\ UNCHANGED call
       ELSE /\ pc' = [pc EXCEPT ![t] = "setClient"]
            /\ call' = [call EXCEPT ![t].session = instance]
            /\ UNCHANGED once
    /\ UNCHANGED <<instance, opened, ddl, alive, client, result, ncalls, logLevel, host, arg, ret>>

\* getInstance: once.Do lets the first goroutine in, holds the others back
\* until the function has returned, and then hands out the package variable
getInstance(t) ==
    /\ alive /\ pc[t] = "getInstance"
    /\ once # "running"
    /\ IF once = "new"
       THEN /\ once' = "running"
            /\ pc' = [pc EXCEPT ![t] = "createSession"]
            /\ UNCHANGED call
       ELSE /\ pc' = [pc EXCEPT ![t] = "setClient"]
            /\ call' = [call EXCEPT ![t].session = instance]
            /\ UNCHANGED once
    /\ UNCHANGED <<instance, opened, ddl, alive, client, result, ncalls, logLevel, host, arg, ret>>

\* initializeSession: cluster.CreateSession(), fatal when it fails
CreateSession(t) ==
    /\ alive /\ pc[t] = "createSession"
    /\ \E ok \in BOOLEAN :
          IF ok
          THEN /\ opened' = Append(opened, [cluster |-> createCluster(call[t].co),
                                            co |-> call[t].co, closed |-> FALSE])
               /\ call' = [call EXCEPT ![t].session = Len(opened) + 1]
               /\ pc' = [pc EXCEPT ![t] = "createKeyspace"]
               /\ UNCHANGED alive
          ELSE /\ alive' = FALSE
               /\ UNCHANGED <<opened, call, pc>>
    /\ UNCHANGED <<once, instance, ddl, client, result, ncalls, logLevel, host, arg, ret>>

\* an initializeSession that creates the keyspace whatever createKeyspace says
CreateKeyspaceAlways(t) ==
    /\ alive /\ pc[t] = "createKeyspace"
    /\ \E ok \in BOOLEAN :
          /\ ddl' = Append(ddl, [stmt |-> "createKeyspace", keyspace |-> call[t].co.keyspace,
                                 table |-> Null, session |-> call[t].session, ok |-> ok])
          /\ IF ok THEN pc' = [pc EXCEPT ![t] = "createTable"] /\ UNCHANGED alive
             ELSE alive' = FALSE /\ UNCHANGED pc
    /\ UNCHANGED <<once, instance, opened, client, call, result, ncalls, logLevel, host, arg, ret>>

\* initializeSession: CREATE KEYSPACE IF NOT EXISTS when createKeyspace is set
CreateKeyspace(t) ==
    /\ alive /\ pc[t] = "createKeyspace"
    /\ LET co == call[t].co
       IN  IF ~co.createKeyspace
           THEN /\ pc' = [pc EXCEPT ![t] = "createTable"]
                /\ UNCHANGED <<ddl, alive>>
           ELSE \E ok \in BOOLEAN :
                  /\ ddl' = Append(ddl, [stmt |-> "createKeyspace", keyspace |-> co.keyspace,
                                         table |-> Null, session |-> call[t].session,
                                         ok |-> ok])
                  /\ IF ok THEN pc' = [pc EXCEPT ![t] = "createTable"] /\ UNCHANGED alive
                     ELSE alive' = FALSE /\ UNCHANGED pc
    /\ UNCHANGED <<once, instance, opened, client, call, result, ncalls, logLevel, host, arg, ret>>

\* initializeSession: CREATE TABLE IF NOT EXISTS <keyspace>.<tableName>
CreateTable(t) ==
    /\ alive /\ pc[t] = "createTable"
    /\ LET co == call[t].co
       IN  \E ok \in BOOLEAN :
              /\ ddl' = Append(ddl, [stmt |-> "createTable", keyspace |-> co.keyspace,
                                     table |-> co.tableName, session |-> call[t].session,
                                     ok |-> ok])
              /\ IF ok THEN pc' = [pc EXCEPT ![t] = "createTagTable"] /\ UNCHANGED alive
                 ELSE alive' = FALSE /\ UNCHANGED pc
    /\ UNCHANGED <<once, instance, opened, client, call, result, ncalls, logLevel, host, arg, ret>>

\* an initializeSession that logs a failure of the tag table statement and
\* returns the session all the same
CreateTagTableIgnoringFailure(t) ==
    /\ alive /\ pc[t] = "createTagTable"
    /\ \E ok \in BOOLEAN :
          ddl' = Append(ddl, [stmt |-> "createTagTable", keyspace |-> call[t].co.keyspace,
                              table |-> "tags", session |-> call[t].session, ok |-> ok])
    /\ instance' = call[t].session
    /\ once' = "done"
    /\ pc' = [pc EXCEPT ![t] = "setClient"]
    /\ UNCHANGED <<opened, alive, client, call, result, ncalls, logLevel, host, arg, ret>>

\* initializeSession: CREATE TABLE IF NOT EXISTS <keyspace>.tags; on success
\* getSession returns, instance is assigned and once.Do completes
CreateTagTable(t) ==
    /\ alive /\ pc[t] = "createTagTable"
    /\ LET co == call[t].co
       IN  \E ok \in BOOLEAN :
              /\ ddl' = Append(ddl, [stmt |-> "createTagTable", keyspace |-> co.keyspace,
                                     table |-> "tags", session |-> call[t].session,
                                     ok |-> ok])
              /\ IF ok
                 THEN /\ instance' = call[t].session
                      /\ once' = "done"
                      /\ pc' = [pc EXCEPT ![t] = "setClient"]
                      /\ UNCHANGED alive
                 ELSE /\ alive' = FALSE
                      /\ UNCHANGED <<instance, once, pc>>
    /\ UNCHANGED <<opened, client, call, result, ncalls, logLevel, host, arg, ret>>

\* NewCassaClient and the assignment to cas.client
NewCassaClient(t) ==
    /\ alive /\ pc[t] = "setClient"
    /\ LET c == call[t]
       IN  client' = [client EXCEPT ![c.pub] =
                        [session |-> c.session, keyspace |-> c.co.keyspace,
                         tableName |-> c.co.tableName, tagsIndex |-> c.tagIndex]]
    /\ pc' = [pc EXCEPT ![t] = "save"]
    /\ UNCHANGED <<once, instance, opened, ddl, alive, call, result, ncalls, logLevel,
                   host, arg, ret>>

\* a saveMetrics that takes keyspace, table and tagIndex from the
\* configuration of the call instead of the client
saveMetricsBeginFromConfig(t) ==
    /\ alive /\ pc[t] = "save"
    /\ call' = [call EXCEPT ![t].cc =
                    [session |-> client[call[t].pub].session,
                     keyspace |-> AssertString(getValueForKey(call[t].config, "keyspaceName")),
                     tableName |-> AssertString(getValueForKey(call[t].config, "tableName")),
                     tagsIndex |-> AssertString(getValueForKey(call[t].config, "tagIndex"))],
                            ![t].i = 1, ![t].errs = <<>>, ![t].err = NoErr]
    /\ pc' = [pc EXCEPT ![t] = "loop"]
    /\ UNCHANGED <<once, instance, opened, ddl, alive, client, result, ncalls, logLevel,
                   host, arg, ret>>

\* cas.client.saveMetrics(metrics): the receiver is read, errs starts empty
saveMetricsBegin(t) ==
    /\ alive /\ pc[t] = "save"
    /\ call' = [call EXCEPT ![t].cc = client[call[t].pub], ![t].i = 1,
                            ![t].errs = <<>>, ![t].err = NoErr]
    /\ pc' = [pc EXCEPT ![t] = "loop"]
    /\ UNCHANGED <<once, instance, opened, ddl, alive, client, result, ncalls, logLevel,
                   host, arg, ret>>

\* the writes of call c that the store refused
Refused(c) == Cardinality({j \in 1..Len(c.issued) : c.issued[j].q.err # NoErr})

\* the answers the store can give to a write on session s
Outcomes(s) == IF opened[s].closed THEN {FALSE} ELSE BOOLEAN

\* the locals of saveMetrics after one turn of its loop, given what worker
\* and tagWorker returned: both errors are appended, nothing is skipped
AppendBoth(c, w, tw) ==
    [c EXCEPT !.i = c.i + 1,
              !.err = tw.err,
              !.errs = (IF w.err # NoErr THEN Append(c.errs, w.err) ELSE c.errs)
                       \o (IF tw.err # NoErr THEN <<tw.err>> ELSE <<>>),
              !.issued = c.issued
                         \o [k \in 1..Len(w.writes) |-> [idx |-> c.i, q |-> w.writes[k]]]
                         \o [k \in 1..Len(tw.writes) |-> [idx |-> c.i, q |-> tw.writes[k]]]]

\* a loop that returns at the first metric whose worker reported an error
AbortOnError(c, w, tw) ==
    IF w.err # NoErr
    THEN [c EXCEPT !.i = Len(c.metrics) + 1, !.err = w.err, !.errs = Append(c.errs, w.err)]
    ELSE AppendBoth(c, w, tw)

\* a loop that leaves out tagWorker when the primary write was refused
SkipTagsOnPrimaryFailure(c, w, tw) ==
    IF \E k \in 1..Len(w.writes) : w.writes[k].err # NoErr
    THEN AppendBoth(c, w, [err |-> NoErr, writes |-> <<>>])
    ELSE AppendBoth(c, w, tw)

\* the body of the range loop of saveMetrics
LoopTurn(c, w, tw) == AppendBoth(c, w, tw)

\* saveMetrics, one turn of the loop: worker, getValidTagIndex, tagWorker;
\* the store answers each write, refusing at most MaxFailures of a call
\* while the session is open
saveMetricsLoop(t) ==
    /\ alive /\ pc[t] = "loop"
    /\ call[t].i <= Len(call[t].metrics)
    /\ LET c == call[t]
           m == c.metrics[c.i]
           vtags == getValidTagIndex(m.tags, c.cc.tagsIndex)
       IN  \E ok \in Outcomes(c.cc.session), oks \in [1..Len(vtags) -> Outcomes(c.cc.session)] :
              LET after == LoopTurn(c, worker(c.cc.session, c.cc.keyspace, c.cc.tableName, m, ok),
                                    tagWorker(c.cc.session, c.cc.keyspace, m, vtags, oks))
              IN  /\ opened[c.cc.session].closed \/ Refused(after) <= MaxFailures
                  /\ call' = [call EXCEPT ![t] = after]
    /\ UNCHANGED <<once, instance, opened, ddl, alive, client, pc, result, ncalls, logLevel,
                   host, arg, ret>>

\* saveMetrics, after the loop: the joined error, or the last err (nil)
saveMetricsReturn(t) ==
    /\ alive /\ pc[t] = "loop"
    /\ call[t].i > Len(call[t].metrics)
    /\ result' = [result EXCEPT ![t] =
                    IF Len(call[t].errs) > 0 THEN JoinedError(call[t].errs)
                    ELSE IF call[t].err = NoErr THEN NilError
                    ELSE [err |-> TRUE, text |-> <<call[t].err>>]]
    /\ call' = [call EXCEPT ![t].returned = TRUE]
    /\ pc' = [pc EXCEPT ![t] = "returned"]
    /\ UNCHANGED <<once, instance, opened, ddl, alive, client, ncalls, logLevel, host, arg, ret>>

\* the host takes the reply; the locals of the call are gone
Reply(t) ==
    /\ alive /\ pc[t] = "returned"
    /\ pc' = [pc EXCEPT ![t] = "idle"]
    /\ call' = [call EXCEPT ![t] = NoCall]
    /\ result' = [result EXCEPT ![t] = NilError]
    /\ UNCHANGED <<once, instance, opened, ddl, alive, client, ncalls, logLevel, host, arg, ret>>

\* a Close that calls session.Close() without testing the client
CloseWithoutNilCheck(p) ==
    /\ alive /\ Cardinality(InFlight) < host.concurrency
    /\ IF client[p] = NoClient
       THEN alive' = FALSE /\ UNCHANGED opened
       ELSE /\ opened' = [opened EXCEPT ![client[p].session].closed = TRUE]
            /\ UNCHANGED alive
    /\ UNCHANGED <<once, instance, ddl, client, pc, call, result, ncalls, logLevel,
                   host, arg, ret>>

\* a Close that also gives up the client of the publisher
CloseForgetsClient(p) ==
    /\ alive /\ Cardinality(InFlight) < host.concurrency
    /\ IF client[p] = NoClient
       THEN UNCHANGED <<opened, client>>
       ELSE /\ opened' = [opened EXCEPT ![client[p].session].closed = TRUE]
            /\ client' = [client EXCEPT ![p] = NoClient]
    /\ UNCHANGED <<once, instance, ddl, alive, pc, call, result, ncalls, logLevel,
                   host, arg, ret>>

\* Close, which the host calls within its concurrency limit: nothing when
\* the publisher has no client; else session.Close(), which closes the
\* session and returns at once when it is closed already
Close(p) ==
    /\ alive /\ Cardinality(InFlight) < host.concurrency
    /\ IF client[p] = NoClient
       THEN UNCHANGED opened
       ELSE opened' = [opened EXCEPT ![client[p].session].closed = TRUE]
    /\ UNCHANGED <<once, instance, ddl, alive, client, pc, call, result, ncalls, logLevel,
                   host, arg, ret>>

Next ==
    \/ \E t \in Callers : Publish(t)
    \/ \E t \in Callers : getInstance(t)
    \/ \E t \in Callers : CreateSession(t)
    \/ \E t \in Callers : CreateKeyspace(t)
    \/ \E t \in Callers : CreateTable(t)
    \/ \E t \in Callers : CreateTagTable(t)
    \/ \E t \in Callers : NewCassaClient(t)
    \/ \E t \in Callers : saveMetricsBegin(t)
    \/ \E t \in Callers : saveMetricsLoop(t)
    \/ \E t \in Callers : saveMetricsReturn(t)
    \/ \E t \in Callers : Reply(t)
    \/ \E p \in host.publishers : Close(p)

Spec == Init /\ [][Next]_vars

\* the same program under a host that applies no concurrency limit, calling
\* one publisher from every goroutine
InitConcurrent ==
    /\ MainInit
    /\ host = [concurrency |-> NumCallers, batch |-> MaxConcurrentBatch,
               publishers |-> {"pubA"}, metrics |-> ConcurrentUniverse,
               contentTypes |-> {SnapGOBContentType}]
    /\ arg = Null /\ ret = Null

SpecConcurrent == InitConcurrent /\ [][Next]_vars

\* metrics that share the key of the primary table, (ns, ver, host, time):
\* a number and a text of one namespace at one time, and the number at
\* another time
OverwriteUniverse ==
    { Metric("intel/psutil/load/load1", {}, IntValue({0, 1, 2, 5, 6})),
      Metric("intel/psutil/load/load1", {}, [type |-> "string", s |-> "bar"]),
      [Metric("intel/psutil/load/load1", {}, IntValue({0, 1})) EXCEPT !.timestamp = "t1"] }

\* the same program under a host that sends one publisher batches in which
\* metrics share a key
InitOverwrite ==
    /\ MainInit
    /\ host = [concurrency |-> ConcurrencyCount, batch |-> MaxBatch,
               publishers |-> {"pubA"}, metrics |-> OverwriteUniverse,
               contentTypes |-> {SnapGOBContentType}]
    /\ arg = Null /\ ret = Null

SpecOverwrite == InitOverwrite /\ [][Next]_vars

-----------------------------------------------------------------------------
(* The value normalizer on its own: every kind of value a metric can carry *)

Width(type) ==
    CASE type \in {"int8", "uint8"} -> 8
      [] type \in {"int16", "uint16"} -> 16
      [] type \in {"int32", "uint32"} -> 32
      [] OTHER -> 64

Signed(type) == type \in {"int8", "int16", "int32", "int64", "int"}

\* magnitudes tried: 0, 1, 103, the largest values of each width, and 64-bit
\* values around 2^53 and 2^63, where a float64 runs out of mantissa
Magnitudes ==
    { {}, {0}, {0, 1, 2, 5, 6}, 0..6, {7}, 0..7, 0..14, {15}, 0..15, 0..30, {31}, 0..31,
      {53}, {0, 53}, {1, 53}, {0, 1, 53}, {1, 54}, {1, 2, 54}, {0, 1, 54}, 0..53,
      0..62, {63}, {10, 63}, 0..63 }

\* whether the sign and magnitude are a value of the integer type
Fits(type, neg, bits) ==
    LET w == Width(type)
    IN  IF Signed(type)
        THEN IF neg THEN bits # {} /\ (bits \subseteq 0..(w - 2) \/ bits = {w - 1})
             ELSE bits \subseteq 0..(w - 2)
        ELSE ~neg /\ bits \subseteq 0..(w - 1)

IntInputs ==
    { [type |-> ty, neg |-> n, bits |-> b] :
        <<ty, n, b>> \in {x \in IntTypes \X BOOLEAN \X Magnitudes : Fits(x[1], x[2], x[3])} }

FloatInputs ==
    { [type |-> "float64", neg |-> n, bits |-> b] :
        n \in BOOLEAN, b \in { {}, {1, -1}, {1, 0, -3}, {53}, {0, 52}, {64}, {-1074} } }
    \cup
    { [type |-> "float32", neg |-> n, bits |-> b] :
        n \in BOOLEAN, b \in { {}, {1, -1}, {0, 23}, {127}, {-149} } }

ConvertInputs ==
    IntInputs \cup FloatInputs
    \cup { [type |-> "bool", b |-> v] : v \in BOOLEAN }
    \cup { [type |-> "string", s |-> v] : v \in {"", "bar", "103"} }
    \cup { [type |-> ty] : ty \in OtherTypes }

InitConvert ==
    /\ MainInit
    /\ host = [concurrency |-> ConcurrencyCount, batch |-> MaxBatch,
               publishers |-> Publishers, metrics |-> MetricUniverse,
               contentTypes |-> ContentTypes]
    /\ arg \in ConvertInputs
    /\ ret = [called |-> FALSE]

\* value, err := convert(arg)
CallConvert ==
    /\ ~ret.called
    /\ ret' = [called |-> TRUE, out |-> convert(arg)]
    /\ UNCHANGED <<once, instance, opened, ddl, alive, client, pc, call, result, ncalls,
                   logLevel, host, arg>>

SpecConvert == InitConvert /\ [][CallConvert]_vars

-----------------------------------------------------------------------------
(* The tag index selector on its own *)

SpecChars == {"a", "b", ",", " "}

\* the tagIndex options tried: every string of up to MaxSpecLen characters
IndexSpecs == SeqsUpTo(SpecChars, MaxSpecLen)

\* the key sets of the tag maps tried; the tag value of a key is immaterial
TagKeySets == SUBSET {<<>>, <<"a">>, <<"b">>, <<" ", "a">>}

InitTagIndex ==
    /\ MainInit
    /\ host = [concurrency |-> ConcurrencyCount, batch |-> MaxBatch,
               publishers |-> Publishers, metrics |-> MetricUniverse,
               contentTypes |-> ContentTypes]
    /\ arg \in { [mtag |-> [k \in ks |-> "101"], tagIndex |-> ix] :
                   ks \in TagKeySets, ix \in IndexSpecs }
    /\ ret = [called |-> FALSE]

\* vtags := getValidTagIndex(m.Tags(), cc.tagsIndex)
CallGetValidTagIndex ==
    /\ ~ret.called
    /\ ret' = [called |-> TRUE, out |-> getValidTagIndex(arg.mtag, arg.tagIndex)]
    /\ UNCHANGED <<once, instance, opened, ddl, alive, client, pc, call, result, ncalls,
                   logLevel, host, arg>>

SpecTagIndex == InitTagIndex /\ [][CallGetValidTagIndex]_vars

-----------------------------------------------------------------------------
(* The options of a connection on their own: from the configuration map to *)
(* the cluster descriptor the session is created from                      *)

\* a key the configuration map does not have
Absent == [type |-> "absent"]

\* the configuration maps tried: the keys of the ssl options and the port are
\* given with a value of their type, with a value of another type, or not at
\* all; the other keys are as the config policy hands them over
OptionChoices ==
    [ssl : {Absent, ConfigValueBool(TRUE), ConfigValueBool(FALSE), ConfigValueStr("true")},
     username : {Absent, ConfigValueStr(""), ConfigValueStr("u"), ConfigValueInt(7)},
     password : {ConfigValueStr(""), ConfigValueStr("p")},
     keyPath : {Absent, ConfigValueStr(""), ConfigValueStr("k")},
     certPath : {ConfigValueStr(""), ConfigValueStr("c")},
     caPath : {ConfigValueStr(""), ConfigValueStr("ca")},
     serverCertVerification : {ConfigValueBool(TRUE), ConfigValueBool(FALSE)},
     port : {Absent, ConfigValueInt(9042), ConfigValueStr("9042")}]

OptionConfig(ch) ==
    LET base == MkConfig("snap", "metrics", <<>>, TRUE, FALSE)
        val(k) == IF k \in DOMAIN ch THEN ch[k] ELSE base[k]
    IN  [k \in {x \in DOMAIN base \cup DOMAIN ch : val(x) # Absent} |-> val(k)]

OptionConfigs == {OptionConfig(ch) : ch \in OptionChoices}

InitOptions ==
    /\ MainInit
    /\ host = [concurrency |-> ConcurrencyCount, batch |-> MaxBatch,
               publishers |-> Publishers, metrics |-> MetricUniverse,
               contentTypes |-> ContentTypes]
    /\ arg \in OptionConfigs
    /\ ret = [called |-> FALSE]

\* Publish on a publisher without a client, from prepareClientOptions to the
\* cluster that getSession hands to initializeSession: the call panics on a
\* key the map does not have, and else goes on to CreateSession with no error
ResolveOptions ==
    /\ ~ret.called
    /\ ret' = IF KeysRead(arg) \subseteq DOMAIN arg
              THEN [called |-> TRUE, crashed |-> FALSE, err |-> NoErr, connects |-> TRUE,
                    co |-> prepareClientOptions(arg),
                    cluster |-> createCluster(prepareClientOptions(arg))]
              ELSE [called |-> TRUE, crashed |-> TRUE, err |-> NoErr, connects |-> FALSE]
    /\ UNCHANGED <<once, instance, opened, ddl, alive, client, pc, call, result, ncalls,
                   logLevel, host, arg>>

SpecOptions == InitOptions /\ [][ResolveOptions]_vars

-----------------------------------------------------------------------------
(* The config policy on its own *)

\* cpolicy.NewStringRule / NewIntegerRule / NewBoolRule (key, required, default)
Rule(type, required, default) == [type |-> type, required |-> required, default |-> default]

\* a policy whose server rule is not required
GetConfigPolicyServerOptional ==
    [k \in BaseKeys \cup SslKeys |->
        CASE k = "caPath" -> Rule("string", FALSE, ConfigValueStr(""))
          [] k = "certPath" -> Rule("string", FALSE, ConfigValueStr(""))
          [] k = "connectionTimeout" -> Rule("integer", FALSE, ConfigValueInt(2))
          [] k = "createKeyspace" -> Rule("bool", FALSE, ConfigValueBool(TRUE))
          [] k = "serverCertVerification" -> Rule("bool", FALSE, ConfigValueBool(TRUE))
          [] k = "ignorePeerAddr" -> Rule("bool", FALSE, ConfigValueBool(FALSE))
          [] k = "initialHostLookup" -> Rule("bool", FALSE, ConfigValueBool(TRUE))
          [] k = "keyPath" -> Rule("string", FALSE, ConfigValueStr(""))
          [] k = "keyspaceName" -> Rule("string", FALSE, ConfigValueStr("snap"))
          [] k = "password" -> Rule("string", FALSE, ConfigValueStr(""))
          [] k = "port" -> Rule("integer", FALSE, ConfigValueInt(9042))
          [] k = "server" -> Rule("string", FALSE, Absent)
          [] k = "ssl" -> Rule("bool", FALSE, ConfigValueBool(FALSE))
          [] k = "tableName" -> Rule("string", FALSE, ConfigValueStr("metrics"))
          [] k = "tagIndex" -> Rule("string", FALSE, ConfigValueStr(<<>>))
          [] k = "timeout" -> Rule("integer", FALSE, ConfigValueInt(2))
          [] k = "username" -> Rule("string", FALSE, ConfigValueStr(""))]

\* GetConfigPolicy: the rule of every key the plugin declares
GetConfigPolicy ==
    [k \in BaseKeys \cup SslKeys |->
        CASE k = "caPath" -> Rule("string", FALSE, ConfigValueStr(""))
          [] k = "certPath" -> Rule("string", FALSE, ConfigValueStr(""))
          [] k = "connectionTimeout" -> Rule("integer", FALSE, ConfigValueInt(2))
          [] k = "createKeyspace" -> Rule("bool", FALSE, ConfigValueBool(TRUE))
          [] k = "serverCertVerification" -> Rule("bool", FALSE, ConfigValueBool(TRUE))
          [] k = "ignorePeerAddr" -> Rule("bool", FALSE, ConfigValueBool(FALSE))
          [] k = "initialHostLookup" -> Rule("bool", FALSE, ConfigValueBool(TRUE))
          [] k = "keyPath" -> Rule("string", FALSE, ConfigValueStr(""))
          [] k = "keyspaceName" -> Rule("string", FALSE, ConfigValueStr("snap"))
          [] k = "password" -> Rule("string", FALSE, ConfigValueStr(""))
          [] k = "port" -> Rule("integer", FALSE, ConfigValueInt(9042))
          [] k = "server" -> Rule("string", TRUE, Absent)
          [] k = "ssl" -> Rule("bool", FALSE, ConfigValueBool(FALSE))
          [] k = "tableName" -> Rule("string", FALSE, ConfigValueStr("metrics"))
          [] k = "tagIndex" -> Rule("string", FALSE, ConfigValueStr(<<>>))
          [] k = "timeout" -> Rule("integer", FALSE, ConfigValueInt(2))
          [] k = "username" -> Rule("string", FALSE, ConfigValueStr(""))]

\* configPolicy.Get([]string{""}).Process(testConfig): a key that is given is
\* validated against the type of its rule, a key that is not given is an
\* error when required and else takes the default of its rule; with errors
\* no config is returned
Process(policy, m) ==
    LET errors == {k \in DOMAIN policy :
                      IF k \in DOMAIN m THEN m[k].type # policy[k].type
                      ELSE policy[k].required}
        filled == {k \in DOMAIN policy : k \notin DOMAIN m /\ policy[k].default # Absent}
    IN  IF errors # {} THEN [ok |-> FALSE, errors |-> errors]
        ELSE [ok |-> TRUE, errors |-> {},
              cfg |-> [k \in DOMAIN m \cup filled |->
                          IF k \in DOMAIN m THEN m[k] ELSE policy[k].default]]

\* the maps processed: some keys given with the declared type, given with
\* another type, or left out, and a key the policy does not declare
PolicyChoices ==
    [server : {Absent, ConfigValueStr("127.0.0.1"), ConfigValueInt(1)},
     port : {Absent, ConfigValueInt(9042), ConfigValueStr("9042")},
     ssl : {Absent, ConfigValueBool(TRUE), ConfigValueStr("true")},
     tagIndex : {Absent, ConfigValueStr(<<"a">>)},
     keyspaceName : {Absent, ConfigValueStr("ks")},
     host : {Absent, ConfigValueStr("127.0.0.1")}]

PolicyInputs ==
    {[k \in {x \in DOMAIN ch : ch[x] # Absent} |-> ch[k]] : ch \in PolicyChoices}

InitPolicy ==
    /\ MainInit
    /\ host = [concurrency |-> ConcurrencyCount, batch |-> MaxBatch,
               publishers |-> Publishers, metrics |-> MetricUniverse,
               contentTypes |-> ContentTypes]
    /\ arg \in PolicyInputs
    /\ ret = [called |-> FALSE]

\* cfg, errs := configPolicy.Get([]string{""}).Process(testConfig)
CallProcess ==
    /\ ~ret.called
    /\ ret' = [called |-> TRUE, out |-> Process(GetConfigPolicy, arg)]
    /\ UNCHANGED <<once, instance, opened, ddl, alive, client, pc, call, result, ncalls,
                   logLevel, host, arg>>

SpecPolicy == InitPolicy /\ [][CallProcess]_vars

-----------------------------------------------------------------------------
(* Properties *)

\* a value the plugin stores: numeric, boolean or text
Supported(v) == v.type \in IntTypes \cup FloatTypes \cup {"bool", "string"}

ValueColumns == {"doubleVal", "strVal", "boolVal"}

\* the value column of a variant of metric data
VariantColumn(v) ==
    CASE v.type \in IntTypes \cup FloatTypes -> "doubleVal"
      [] v.type = "string" -> "strVal"
      [] v.type = "bool" -> "boolVal"
      [] OTHER -> "none"

\* a write to the primary table, as opposed to the tag table
IsPrimary(w) == "key" \notin DOMAIN w.q.row

\* the goroutines that hold a session handle handed out by getInstance
Holders ==
    {t \in Callers : call[t].co # NoOptions
                     /\ pc[t] \in {"setClient", "save", "loop", "returned"}}

\* C1: however many goroutines ask for the session at the same time, one
\* session is opened and the schema statements run once; every goroutine that
\* has its handle holds that one session, and holds it only after the whole
\* initialization has completed.
C1_InitOnce ==
    /\ Len(opened) <= 1
    /\ \A a, b \in 1..Len(ddl) : ddl[a].stmt = ddl[b].stmt => a = b
    /\ instance # NoSession => Len(opened) = 1 /\ instance = 1 /\ once = "done"
    /\ \A t \in Holders :
          /\ call[t].session = instance
          /\ instance # NoSession
          /\ once = "done"
          /\ \E a \in 1..Len(ddl) : ddl[a].stmt = "createTable" /\ ddl[a].ok
          /\ \E a \in 1..Len(ddl) : ddl[a].stmt = "createTagTable" /\ ddl[a].ok

\* two goroutines asked with different options and hold the same session
C1_Witness ==
    \E t, u \in Holders :
        /\ t # u
        /\ call[t].co # call[u].co
        /\ call[t].session = instance
        /\ call[u].session = instance
        /\ Len(opened) = 1

\* C2: once the session exists, a request for it returns that session
\* whatever options it passes: no session is opened, no schema statement is
\* executed, and the session stays the one the first caller's options opened.
C2_FirstOptionsWin ==
    [][instance # NoSession =>
          /\ instance' = instance
          /\ Len(opened') = Len(opened)
          /\ opened'[instance].co = opened[instance].co
          /\ ddl' = ddl
          /\ \A t \in Callers :
                pc[t] = "getInstance" /\ pc'[t] # "getInstance" =>
                    /\ pc'[t] = "setClient"
                    /\ call'[t].session = instance]_vars

\* both publishers have a client on the one session, asked for with
\* different options
C2_Witness ==
    /\ client["pubA"] # NoClient
    /\ client["pubB"] # NoClient
    /\ client["pubA"].keyspace # client["pubB"].keyspace
    /\ client["pubA"].session = instance
    /\ client["pubB"].session = instance
    /\ Len(opened) = 1

\* a Publish that has been through saveMetrics and has its result
Saved(t) == pc[t] = "returned" /\ call[t].cc # NoClient

\* C3: Publish succeeds exactly when no record of the batch produced an
\* error (an unsupported value or a write the store refused), and otherwise
\* returns the error messages joined with ";".
C3_SuccessIffNoRecordError ==
    \A t \in Callers :
        Saved(t) =>
            LET c == call[t]
                failed == \/ \E k \in 1..Len(c.metrics) : ~Supported(c.metrics[k].data)
                          \/ \E j \in 1..Len(c.issued) : c.issued[j].q.err # NoErr
            IN  /\ result[t].err <=> failed
                /\ result[t].err => result[t].text = Join(c.errs)

\* C4: when the write of a record to the primary table fails, the error of
\* the store is in what Publish returns.
C4_PrimaryFailureReturned ==
    \A t \in Callers :
        Saved(t) =>
            \A j \in 1..Len(call[t].issued) :
                LET w == call[t].issued[j]
                IN  IsPrimary(w) /\ w.q.err # NoErr =>
                        /\ result[t].err
                        /\ \E e \in 1..Len(result[t].text) : result[t].text[e] = ErrStore

\* C5: a failure on one record never ends the batch: when Publish returns,
\* the loop has passed every record, and every record with a supported value
\* has had its primary write and one tag write per eligible tag attempted.
C5_BatchRunsToEnd ==
    \A t \in Callers :
        Saved(t) =>
            LET c == call[t]
            IN  /\ c.i = Len(c.metrics) + 1
                /\ \A k \in 1..Len(c.metrics) :
                      Supported(c.metrics[k].data) =>
                          /\ \E j \in 1..Len(c.issued) :
                                c.issued[j].idx = k /\ IsPrimary(c.issued[j])
                          /\ LET vtags == getValidTagIndex(c.metrics[k].tags, c.cc.tagsIndex)
                             IN  \A g \in 1..Len(vtags) :
                                    \E j \in 1..Len(c.issued) :
                                        /\ c.issued[j].idx = k
                                        /\ ~IsPrimary(c.issued[j])
                                        /\ c.issued[j].q.row["key"].v = vtags[g]

\* the first record has an unsupported value, the second one was written
C5_Witness ==
    \E t \in Callers :
        /\ Saved(t)
        /\ Len(call[t].metrics) = 2
        /\ ~Supported(call[t].metrics[1].data)
        /\ Supported(call[t].metrics[2].data)
        /\ result[t].err
        /\ \E j \in 1..Len(call[t].issued) :
              call[t].issued[j].idx = 2 /\ IsPrimary(call[t].issued[j])

\* C6: a record whose value is not numeric, boolean or text is never
\* written, to the primary table or to the tag table; it adds the invalid
\* data type error to the errors of the batch, and Publish returns an error.
C6_UnsupportedNeverWritten ==
    \A t \in Callers :
        LET c == call[t]
        IN  \A k \in 1..Len(c.metrics) :
               ~Supported(c.metrics[k].data) =>
                   /\ \A j \in 1..Len(c.issued) : c.issued[j].idx # k
                   /\ c.i > k =>
                         \E e \in 1..Len(c.errs) :
                             c.errs[e] = ErrInvalidDataType(c.metrics[k].data)
                   /\ pc[t] = "returned" => result[t].err

\* a batch whose only record is unsupported and carries a tag that is
\* indexed has returned: an error, and nothing written
C6_Witness ==
    \E t \in Callers :
        /\ Saved(t)
        /\ Len(call[t].metrics) = 1
        /\ ~Supported(call[t].metrics[1].data)
        /\ getValidTagIndex(call[t].metrics[1].tags, call[t].cc.tagsIndex) # <<>>
        /\ call[t].issued = <<>>
        /\ result[t].err

\* a Publish whose payload cannot be turned into metrics
Undecoded(c) == c.contentType # SnapGOBContentType \/ ~c.decodable

ConvertKinds ==
    LET o == ret.out
    IN  CASE arg.type \in IntTypes \cup FloatTypes ->
                o.err = NoErr /\ o.num.type = "float64" /\ o.num.neg = arg.neg
          [] arg.type \in {"bool", "string"} -> o.err = NoErr /\ o.num = arg
          [] OTHER -> o.num = NilValue /\ o.err = ErrInvalidDataType(arg)

IsNumber(v) == v.type \in IntTypes \cup FloatTypes

\* C8 as stated: convert is total; a number comes back as a float64 of the
\* same numeric value, a boolean and a text unchanged, anything else as the
\* invalid data type error.
C8_SameValue ==
    ret.called =>
        /\ ConvertKinds
        /\ IsNumber(arg) => ret.out.num.bits = arg.bits

\* C8: convert is total; a number comes back as a float64, of the same value
\* when its magnitude has at most 53 significant bits and else one of the two
\* float64 values next to it; a boolean and a text come back unchanged,
\* anything else as the invalid data type error.
C8_SameValueUpTo53Bits ==
    ret.called =>
        /\ ConvertKinds
        /\ IsNumber(arg) =>
              LET x == arg.bits
                  y == ret.out.num.bits
              IN  IF SigBits(x) <= MantissaBits THEN y = x
                  ELSE /\ SigBits(y) <= MantissaBits
                       /\ y \in {Floor(x, CutOf(x)), AddBit(Floor(x, CutOf(x)), CutOf(x))}

\* a uint64 with more than 53 significant bits was converted to another value
C8_Witness ==
    /\ ret.called
    /\ arg.type = "uint64"
    /\ SigBits(arg.bits) > MantissaBits
    /\ ret.out.err = NoErr
    /\ ret.out.num.bits # arg.bits

\* the writes issued by the calls in progress, each with the data it is for
IssuedWrites ==
    UNION {{[w |-> call[t].issued[j], data |-> call[t].metrics[call[t].issued[j].idx].data] :
               j \in 1..Len(call[t].issued)} : t \in Callers}

\* C9: every row written, primary or tag, has exactly one of the three value
\* columns, the one of the variant of its value, holding the normalized
\* value; the value type label depends on the variant alone.
C9_OneValueColumn ==
    /\ \A x \in IssuedWrites :
          /\ DOMAIN x.w.q.row \cap ValueColumns = {VariantColumn(x.data)}
          /\ VariantColumn(x.w.q.row[VariantColumn(x.data)].v) = VariantColumn(x.data)
    /\ \A x, y \in IssuedWrites :
          VariantColumn(x.data) = VariantColumn(y.data) =>
              x.w.q.row["valtype"].v = y.w.q.row["valtype"].v

\* one call wrote a number with its tag row and a text
C9_Witness ==
    \E t \in Callers :
        /\ Saved(t)
        /\ \E j \in 1..Len(call[t].issued) :
              /\ "doubleVal" \in DOMAIN call[t].issued[j].q.row
              /\ ~IsPrimary(call[t].issued[j])
        /\ \E j \in 1..Len(call[t].issued) :
              "strVal" \in DOMAIN call[t].issued[j].q.row

\* the configured keys, trimmed, in the order they are configured
TrimmedKeys(tagIndex) ==
    LET pieces == Split(tagIndex)
    IN  [k \in 1..Len(pieces) |-> TrimSpace(pieces[k])]

\* C10: getValidTagIndex returns, in the order of the option, exactly the
\* trimmed configured keys that are keys of the tag map.
C10_TrimmedKeysPresent ==
    ret.called =>
        ret.out = SelectSeq(TrimmedKeys(arg.tagIndex), LAMBDA k : k \in DOMAIN arg.mtag)

\* "a, b" against a tag map that has a and not b selected a
C10_Witness ==
    /\ ret.called
    /\ arg.tagIndex = <<"a", ",", " ", "b">>
    /\ DOMAIN arg.mtag = {<<"a">>, <<" ", "a">>}
    /\ ret.out = << <<"a">> >>

\* C11: with an empty tagIndex option getValidTagIndex returns the empty
\* sequence for every tag map, a map that has the empty key included, so
\* that tagWorker has no tag to write.
C11_EmptySpecSelectsNothing ==
    ret.called /\ arg.tagIndex = <<>> => ret.out = <<>>

\* the writes of call c that are for its k-th metric, in the order issued
WritesFor(c, k) == SelectSeq(c.issued, LAMBDA w : w.idx = k)

\* C12: for a metric with a supported value Publish issues one write to the
\* primary table, and then one write to the tag table for each tag key the
\* selector returned, with that key and the metric's value of that tag; when
\* the selector returned no key, the primary write is all it issues.
C12_OnePrimaryOneRowPerTag ==
    \A t \in Callers :
        Saved(t) =>
            LET c == call[t]
            IN  \A k \in 1..Len(c.metrics) :
                   Supported(c.metrics[k].data) =>
                       LET m == c.metrics[k]
                           vtags == getValidTagIndex(m.tags, c.cc.tagsIndex)
                           mine == WritesFor(c, k)
                       IN  /\ Len(mine) = 1 + Len(vtags)
                           /\ IsPrimary(mine[1])
                           /\ \A g \in 1..Len(vtags) :
                                 /\ ~IsPrimary(mine[1 + g])
                                 /\ mine[1 + g].q.row["key"].v = vtags[g]
                                 /\ mine[1 + g].q.row["val"].v = m.tags[vtags[g]]

\* one call wrote a metric with two indexed tags as three rows and a metric
\* with no indexed tag as one
C12_Witness ==
    \E t \in Callers :
        /\ Saved(t)
        /\ Len(call[t].metrics) = 2
        /\ Len(getValidTagIndex(call[t].metrics[1].tags, call[t].cc.tagsIndex)) = 2
        /\ Len(getValidTagIndex(call[t].metrics[2].tags, call[t].cc.tagsIndex)) = 0
        /\ Supported(call[t].metrics[1].data)
        /\ Supported(call[t].metrics[2].data)
        /\ Len(WritesFor(call[t], 1)) = 3
        /\ Len(WritesFor(call[t], 2)) = 1

\* the schema statements of an initialization with options co, in order
ExpectedSchema(co) ==
    (IF co.createKeyspace THEN <<"createKeyspace">> ELSE <<>>)
        \o <<"createTable", "createTagTable">>

C14_InitFailureIsFatal ==
    /\ []((\E a \in 1..Len(ddl) : ~ddl[a].ok) => ~alive)
    /\ [](~alive =>
            /\ instance = NoSession
            /\ once # "done"
            /\ \A p \in Publishers : client[p] = NoClient
            /\ \A t \in Callers : call[t].issued = <<>>)
    /\ [][~alive => UNCHANGED vars]_vars

\* the tag table statement failed after the session was opened and the
\* primary table created: the process has ended
C14_Witness ==
    /\ ~alive
    /\ Len(opened) = 1
    /\ Len(ddl) >= 2
    /\ ddl[Len(ddl)].stmt = "createTagTable"
    /\ ~ddl[Len(ddl)].ok
    /\ instance = NoSession

\* C15: Close can be called in every state of a publisher (whenever the host
\* may make a call) and never fails: on a publisher without a client it
\* changes nothing, on a publisher with one it leaves the session closed,
\* whether or not it was closed before.
C15_CloseIsSafe ==
    /\ [](alive /\ Cardinality(InFlight) < host.concurrency =>
             \A p \in Publishers : ENABLED Close(p))
    /\ [][\A p \in Publishers :
             Close(p) =>
                 /\ alive'
                 /\ client[p] = NoClient => UNCHANGED vars
                 /\ client[p] # NoClient =>
                       /\ opened'[client[p].session].closed
                       /\ Len(opened') = Len(opened)
                       /\ UNCHANGED <<client, instance, once>>]_vars

\* Close has released the session of one publisher while the other publisher
\* never had a client; the process is running
C15_Witness ==
    /\ alive
    /\ client["pubA"] # NoClient
    /\ opened[client["pubA"].session].closed
    /\ client["pubB"] = NoClient

\* the ssl flag of a configuration is the boolean true
SslFlag(config) == "ssl" \in DOMAIN config /\ config["ssl"] = ConfigValueBool(TRUE)

\* C16: the resolved options carry ssl options if and only if the ssl flag
\* is true.  When it is not, the keys of the ssl options are not looked up
\* (a configuration without them resolves), and the cluster gets neither
\* transport security nor an authenticator, whatever values those keys have.
C16_SslOnlyWhenFlagged ==
    ret.called =>
        /\ ~ret.crashed => (ret.co.ssl.present <=> SslFlag(arg))
        /\ ~SslFlag(arg) /\ BaseKeys \subseteq DOMAIN arg =>
              /\ ~ret.crashed
              /\ ret.co.ssl = NoSsl
              /\ ~ret.cluster.sslOpts.present
              /\ ret.cluster.authenticator = NoAuthenticator
              /\ ret.co = prepareClientOptions([k \in DOMAIN arg \ SslKeys |-> arg[k]])

\* ssl is false while user name, password and all three paths are given: the
\* options have no ssl part and the cluster is plain
C16_Witness ==
    /\ ret.called
    /\ ~ret.crashed
    /\ arg["ssl"] = ConfigValueBool(FALSE)
    /\ "username" \in DOMAIN arg /\ arg["username"] = ConfigValueStr("u")
    /\ arg["password"] = ConfigValueStr("p")
    /\ "keyPath" \in DOMAIN arg /\ arg["keyPath"] = ConfigValueStr("k")
    /\ arg["certPath"] = ConfigValueStr("c")
    /\ arg["caPath"] = ConfigValueStr("ca")
    /\ ret.co.ssl = NoSsl
    /\ ~ret.cluster.sslOpts.present

CertificatePaths == {"keyPath", "certPath", "caPath"}

\* C17: with ssl true and a key path, certificate path or CA path that is
\* missing or empty, Publish returns a configuration error before it tries
\* to connect.
C17_SslNeedsAllPaths ==
    ret.called /\ SslFlag(arg)
        /\ (\E k \in CertificatePaths : k \notin DOMAIN arg \/ arg[k] = ConfigValueStr("")) =>
            /\ ~ret.crashed
            /\ ret.err # NoErr
            /\ ~ret.connects

\* C18: with ssl options the cluster gets the password authenticator if and
\* only if user name and password are both non-empty; its key, certificate
\* and CA path each equal the option of that name, whatever the other two
\* are; and host verification equals the configured flag.
C18_SslOptionsOnCluster ==
    ret.called /\ ~ret.crashed /\ ret.co.ssl.present =>
        LET o == ret.co.ssl
            cl == ret.cluster
            both == o.username # "" /\ o.password # ""
        IN  /\ cl.authenticator # NoAuthenticator <=> both
            /\ both => cl.authenticator = [username |-> o.username, password |-> o.password]
            /\ cl.sslOpts.present
            /\ cl.sslOpts.keyPath = o.keyPath
            /\ cl.sslOpts.certPath = o.certPath
            /\ cl.sslOpts.caPath = o.caPath
            /\ cl.sslOpts.enableHostVerification = o.enableServerCertVerification
            /\ o.enableServerCertVerification = arg["serverCertVerification"].value
            /\ \A k \in CertificatePaths :
                  arg[k].type = "string" => cl.sslOpts[k] = arg[k].value

\* a user name without a password, a key path and a CA path without a
\* certificate path: no authenticator, and the two paths on the cluster
C18_Witness ==
    /\ ret.called
    /\ ~ret.crashed
    /\ ret.co.ssl.present
    /\ ret.co.ssl.username = "u"
    /\ ret.co.ssl.password = ""
    /\ ret.cluster.authenticator = NoAuthenticator
    /\ ret.cluster.sslOpts.keyPath = "k"
    /\ ret.cluster.sslOpts.certPath = ""
    /\ ret.cluster.sslOpts.caPath = "ca"
    /\ ~ret.cluster.sslOpts.enableHostVerification

\* C19: looking up a key that the configuration does not have, or that has a
\* value of another type than expected, never ends the Publish call: the
\* options are resolved with the zero value of the expected type.
C19_ExtractionNeverCrashes ==
    ret.called =>
        /\ ~ret.crashed
        /\ ("port" \notin DOMAIN arg \/ arg["port"].type # "integer") => ret.co.port = 0
        /\ ret.co.ssl.present /\ ("username" \notin DOMAIN arg \/ arg["username"].type # "string")
              => ret.co.ssl.username = ""

\* the declared type and default of every optional key
DeclaredOptional ==
    [port |-> ConfigValueInt(9042), ssl |-> ConfigValueBool(FALSE),
     username |-> ConfigValueStr(""), password |-> ConfigValueStr(""),
     keyPath |-> ConfigValueStr(""), certPath |-> ConfigValueStr(""),
     caPath |-> ConfigValueStr(""), serverCertVerification |-> ConfigValueBool(TRUE),
     timeout |-> ConfigValueInt(2), connectionTimeout |-> ConfigValueInt(2),
     tagIndex |-> ConfigValueStr(<<>>), keyspaceName |-> ConfigValueStr("snap"),
     createKeyspace |-> ConfigValueBool(TRUE), tableName |-> ConfigValueStr("metrics"),
     initialHostLookup |-> ConfigValueBool(TRUE), ignorePeerAddr |-> ConfigValueBool(FALSE)]

TagKeysOf(ws) ==
    LET tws == SelectSeq(ws, LAMBDA w : ~IsPrimary(w))
    IN  [g \in 1..Len(tws) |-> tws[g].q.row["key"].v]

\* C21: within one Publish the writes are issued in a fixed order: by metric
\* in input order, all writes of a metric before any write of the next; for
\* one metric the primary write before its tag writes, and the tag writes in
\* the order of the keys in the tagIndex option.
C21_WriteOrder ==
    \A t \in Callers :
        LET c == call[t]
        IN  /\ \A j \in 1..Len(c.issued) :
                  /\ c.issued[j].idx < c.i
                  /\ j > 1 => c.issued[j - 1].idx <= c.issued[j].idx
                  /\ (j > 1 /\ IsPrimary(c.issued[j])) =>
                         c.issued[j - 1].idx < c.issued[j].idx
            /\ \A k \in 1..Len(c.metrics) :
                  k < c.i =>
                      TagKeysOf(WritesFor(c, k)) \in
                          { <<>>,
                            SelectSeq(TrimmedKeys(c.cc.tagsIndex),
                                      LAMBDA key : key \in DOMAIN c.metrics[k].tags) }

\* a call has written its first metric as a primary row, the row of tag a
\* and the row of tag b, and after them the primary row of its second metric
C21_Witness ==
    \E t \in Callers :
        /\ Len(call[t].issued) >= 4
        /\ \A j \in 1..3 : call[t].issued[j].idx = 1
        /\ IsPrimary(call[t].issued[1])
        /\ TagKeysOf(WritesFor(call[t], 1)) = << <<"a">>, <<"b">> >>
        /\ call[t].issued[4].idx = 2
        /\ IsPrimary(call[t].issued[4])

\* C22: when the write of one tag row of a metric fails, the error of the
\* store is in what Publish returns, and the remaining tag rows of that
\* metric and all rows of the metrics after it are still attempted.
C22_TagFailureRecorded ==
    \A t \in Callers :
        Saved(t) =>
            LET c == call[t]
            IN  \A j \in 1..Len(c.issued) :
                   ~IsPrimary(c.issued[j]) /\ c.issued[j].q.err # NoErr =>
                       /\ result[t].err
                       /\ \E e \in 1..Len(result[t].text) : result[t].text[e] = ErrStore
                       /\ \A k \in c.issued[j].idx..Len(c.metrics) :
                             Supported(c.metrics[k].data) =>
                                 Len(WritesFor(c, k)) =
                                     1 + Len(getValidTagIndex(c.metrics[k].tags,
                                                              c.cc.tagsIndex))

\* keyspace, table name and tagIndex as configuration cfg gives them
SettingsOf(cfg) ==
    [keyspace |-> AssertString(getValueForKey(cfg, "keyspaceName")),
     tableName |-> AssertString(getValueForKey(cfg, "tableName")),
     tagsIndex |-> AssertString(getValueForKey(cfg, "tagIndex"))]

\* keyspace, table name and tagIndex of a client
SettingsIn(cl) ==
    [keyspace |-> cl.keyspace, tableName |-> cl.tableName, tagsIndex |-> cl.tagsIndex]

\* C23: under the host's one call at a time, a publisher gets its client at
\* most once and keeps it; a call resolves options only on a publisher
\* without a client; and every write of a call on a publisher with a client
\* is made with the keyspace, table name and tagIndex of that client, which
\* are those of the configuration of the call that made it, whatever the
\* configuration of the writing call.
C23_SettingsOfFirstCall ==
    /\ [][\A p \in Publishers :
             /\ client[p] # NoClient => client'[p] = client[p]
             /\ (client[p] = NoClient /\ client'[p] # NoClient) =>
                   \E t \in Callers :
                       /\ call[t].pub = p
                       /\ SettingsIn(client'[p]) = SettingsOf(call[t].config)]_vars
    /\ [][\A t \in Callers :
             call'[t].co # NoOptions /\ call[t].co = NoOptions =>
                 client[call'[t].pub] = NoClient]_vars
    /\ [](\A t \in Callers :
             LET c == call[t]
             IN  c.cc # NoClient =>
                    /\ c.cc = client[c.pub]
                    /\ \A j \in 1..Len(c.issued) :
                          /\ c.issued[j].q.keyspace = client[c.pub].keyspace
                          /\ c.issued[j].q.session = client[c.pub].session
                          /\ IsPrimary(c.issued[j]) =>
                                c.issued[j].q.table = client[c.pub].tableName
                    /\ \A k \in 1..Len(c.metrics) :
                          (k < c.i /\ Supported(c.metrics[k].data)) =>
                              TagKeysOf(WritesFor(c, k)) =
                                  getValidTagIndex(c.metrics[k].tags,
                                                   client[c.pub].tagsIndex))

\* a later call on a publisher with a client passed a configuration with
\* another keyspace, table and tagIndex, and wrote a row with its tag row
C23_Witness ==
    \E t \in Callers :
        /\ Saved(t)
        /\ call[t].co = NoOptions
        /\ SettingsOf(call[t].config).keyspace # client[call[t].pub].keyspace
        /\ SettingsOf(call[t].config).tableName # client[call[t].pub].tableName
        /\ SettingsOf(call[t].config).tagsIndex # client[call[t].pub].tagsIndex
        /\ Len(call[t].issued) >= 2
        /\ ~IsPrimary(call[t].issued[2])

\* C24: when first calls with different settings overlap on one publisher
\* without a client, every write of every call uses the keyspace and the
\* table name the session was initialized with, and all calls select tags
\* with one tagIndex.
C24_RaceAbsorbed ==
    /\ \A t \in Callers :
          \A j \in 1..Len(call[t].issued) :
              /\ call[t].issued[j].q.keyspace = opened[1].co.keyspace
              /\ IsPrimary(call[t].issued[j]) =>
                    call[t].issued[j].q.table = opened[1].co.tableName
    /\ \A t, u \in Callers :
          (call[t].pub = call[u].pub /\ call[t].cc # NoClient /\ call[u].cc # NoClient) =>
              SettingsIn(call[t].cc) = SettingsIn(call[u].cc)

\* the tables the schema statements of the process have created
Provisioned ==
    {[keyspace |-> ddl[a].keyspace, table |-> ddl[a].table] :
        a \in {b \in 1..Len(ddl) : ddl[b].ok /\ ddl[b].stmt \in {"createTable", "createTagTable"}}}

\* C25: every insert of every publisher goes to a keyspace and table that a
\* schema statement of the process created, also when the publisher's
\* keyspaceName or tableName is not the one the session was initialized with.
C25_InsertsIntoProvisioned ==
    \A t \in Callers :
        \A j \in 1..Len(call[t].issued) :
            [keyspace |-> call[t].issued[j].q.keyspace,
             table |-> call[t].issued[j].q.table] \in Provisioned

\* the statement that created table tbl of keyspace ks: with IF NOT EXISTS
\* the first one that names it; "none" when no statement has
CreatedBy(ks, tbl) ==
    LET made == {a \in 1..Len(ddl) :
                    /\ ddl[a].ok
                    /\ ddl[a].stmt \in {"createTable", "createTagTable"}
                    /\ ddl[a].keyspace = ks
                    /\ ddl[a].table = tbl}
    IN  IF made = {} THEN "none"
        ELSE ddl[CHOOSE a \in made : \A b \in made : a <= b].stmt

\* C26: once the session is initialized, whatever keyspaceName and tableName
\* are (tableName = "tags" included), the primary table and the tag table
\* are two tables, the first made by the primary schema statement and the
\* second by the tag schema statement.
C26_TwoDistinctTables ==
    instance # NoSession =>
        LET co == opened[instance].co
        IN  /\ co.tableName # "tags"
            /\ CreatedBy(co.keyspace, co.tableName) = "createTable"
            /\ CreatedBy(co.keyspace, "tags") = "createTagTable"

\* the messages the first k metrics of call c are to contribute
RECURSIVE InvalidMessages(_, _)
InvalidMessages(c, k) ==
    IF k = 0 THEN <<>>
    ELSE LET m == c.metrics[k]
             e == ErrInvalidDataType(m.data)
         IN  InvalidMessages(c, k - 1) \o
                 (IF Supported(m.data) THEN <<>>
                  ELSE IF getValidTagIndex(m.tags, c.cc.tagsIndex) = <<>> THEN <<e>>
                  ELSE <<e, e>>)

\* C27: a metric with an unsupported value adds one invalid data type
\* message to the combined error when none of its tags is indexed, and the
\* same message twice when at least one is; the combined error is the
\* collected messages joined.
C27_OneOrTwoMessages ==
    \A t \in Callers :
        LET c == call[t]
        IN  c.cc # NoClient =>
               /\ SelectSeq(c.errs, LAMBDA e : e # ErrStore) = InvalidMessages(c, c.i - 1)
               /\ (Saved(t) /\ c.errs # <<>>) => result[t] = JoinedError(c.errs)

\* a batch of one unsupported metric with an indexed tag has returned the
\* message twice, joined
C27_Witness ==
    \E t \in Callers :
        /\ Saved(t)
        /\ Len(call[t].metrics) = 1
        /\ ~Supported(call[t].metrics[1].data)
        /\ getValidTagIndex(call[t].metrics[1].tags, call[t].cc.tagsIndex) # <<>>
        /\ Len(call[t].errs) = 2
        /\ call[t].errs[1] = call[t].errs[2]
        /\ Len(result[t].text) = 3

\* C28: the tag writes of a metric are attempted whether or not its primary
\* write succeeded: after a refused primary write the metric still has one
\* tag write for each tag key the selector returned.
C28_TagsAfterFailedPrimary ==
    \A t \in Callers :
        LET c == call[t]
        IN  \A j \in 1..Len(c.issued) :
               LET k == c.issued[j].idx
               IN  (IsPrimary(c.issued[j]) /\ c.issued[j].q.err # NoErr /\ k < c.i) =>
                       TagKeysOf(WritesFor(c, k)) =
                           getValidTagIndex(c.metrics[k].tags, c.cc.tagsIndex)

\* on an open session the primary write of a metric was refused and the
\* write of its tag row accepted: a tag row without a primary row
C28_Witness ==
    \E t \in Callers :
        /\ Len(call[t].issued) >= 2
        /\ ~opened[call[t].cc.session].closed
        /\ IsPrimary(call[t].issued[1])
        /\ call[t].issued[1].q.err # NoErr
        /\ ~IsPrimary(call[t].issued[2])
        /\ call[t].issued[2].idx = call[t].issued[1].idx
        /\ call[t].issued[2].q.err = NoErr

\* C29: Close leaves the publisher with its client; once a session is
\* closed no step opens a session, runs a schema statement or changes the
\* session singleton or a client that is set; and the writes of a Publish on
\* the publisher go to the session of its client, the closed one.
C29_ClosedStaysInitialized ==
    /\ [][\A p \in Publishers : Close(p) => client' = client]_vars
    /\ [][(\E s \in 1..Len(opened) : opened[s].closed) =>
             /\ Len(opened') = Len(opened)
             /\ \A s \in 1..Len(opened) : opened[s].closed => opened'[s].closed
             /\ ddl' = ddl
             /\ instance' = instance
             /\ \A p \in Publishers : client[p] # NoClient => client'[p] = client[p]]_vars
    /\ [](\A t \in Callers :
             call[t].cc # NoClient =>
                 /\ call[t].cc.session = client[call[t].pub].session
                 /\ \A j \in 1..Len(call[t].issued) :
                       call[t].issued[j].q.session = client[call[t].pub].session)

\* a Publish on a publisher whose session Close had closed has returned: it
\* resolved no options, and its writes went to the closed session
C29_Witness ==
    \E t \in Callers :
        /\ Saved(t)
        /\ call[t].co = NoOptions
        /\ opened[client[call[t].pub].session].closed
        /\ Len(opened) = 1
        /\ call[t].issued # <<>>
        /\ \A j \in 1..Len(call[t].issued) :
              /\ call[t].issued[j].q.session = client[call[t].pub].session
              /\ call[t].issued[j].q.err # NoErr

\* the key of a row of the primary table: PRIMARY KEY ((ns, ver, host), time)
KeyOf(row) == <<row["ns"].v, row["ver"].v, row["host"].v, row["time"].v>>

\* INSERT on a table: the row of the key gets the columns the statement
\* names; the columns it does not name stay as they are
Upsert(tbl, row) ==
    LET key == KeyOf(row)
        old == IF key \in DOMAIN tbl THEN tbl[key] ELSE <<>>
    IN  (key :> [c \in DOMAIN old \cup DOMAIN row |->
                    IF c \in DOMAIN row THEN row[c] ELSE old[c]]) @@ tbl

\* the primary table after the first n writes of a call, accepted ones applied
\* in the order issued
RECURSIVE PrimaryTable(_, _)
PrimaryTable(issued, n) ==
    IF n = 0 THEN <<>>
    ELSE LET w == issued[n]
             before == PrimaryTable(issued, n - 1)
         IN  IF IsPrimary(w) /\ w.q.err = NoErr THEN Upsert(before, w.q.row) ELSE before

\* a call that has returned from a batch of supported values with every
\* write accepted
AllStored(t) ==
    /\ Saved(t)
    /\ \A k \in 1..Len(call[t].metrics) : Supported(call[t].metrics[k].data)
    /\ \A j \in 1..Len(call[t].issued) : call[t].issued[j].q.err = NoErr

\* the last primary write of call c whose row has the key
LastWriteOf(c, key) ==
    LET js == {j \in 1..Len(c.issued) :
                  IsPrimary(c.issued[j]) /\ KeyOf(c.issued[j].q.row) = key}
    IN  c.issued[CHOOSE j \in js : \A i \in js : i <= j]

\* the keys of the metrics of call c
BatchKeys(c) ==
    {<<c.metrics[k].namespace, c.metrics[k].version,
       c.metrics[k].tags[STD_TAG_PLUGIN_RUNNING_ON], c.metrics[k].timestamp>> :
        k \in 1..Len(c.metrics)}

=============================================================================
